---- MODULE Spec2Model ----
(***************************************************************************)
(* AlpacaLumnisTrader: the per-minute decision loop (run), the history     *)
(* store (warmup_history, warmup_price_history, update_history), the       *)
(* broker wrappers (submit_order, get_open_position, close_position,       *)
(* close_all_positions) and get_signal, modelled from                      *)
(* src/AlpacaLumnisTrader/AlpacaLumnisTrader.py.                           *)
(*                                                                         *)
(* A history series (a pandas DataFrame indexed by timestamp) is a         *)
(* sequence of bars [ts, v]: ts the index value, v the one column the loop *)
(* reads (vpin_500 of the factor frame, close of the price frame).  NaN    *)
(* stands for a missing observation.                                       *)
(***************************************************************************)
EXTENDS Integers, Sequences, FiniteSets, TLC

\* ------------------------------------------------------------ bounds
NumAssets == 2          \* len(self.tradable_assets)
MaxTs == 2              \* bar timestamps are 1..MaxTs
MaxFactor == 1          \* factor observations are 1..MaxFactor, or NaN
MaxClose == 2           \* closes are 1..MaxClose, or NaN
MaxWinLen == 2          \* longest live window the feed returns
MaxRunWinLen == 1       \* longest live window the feed returns inside run()
SecPerMin == 2          \* seconds in a minute of the model's wall clock
MinPerHour == 2         \* minutes in an hour of the model's wall clock
MaxTime == 4            \* the wall clock stops here
MaxCash == 10           \* largest account.cash
MaxZ == 3               \* largest standardized vpin_500 value
MinOrderSize == 2       \* asset.min_order_size
MaxPositions == 3       \* most positions get_all_positions returns

\* ------------------------------------------------------------ program constants
tp == 2                 \* self.tp
sl == 2                 \* self.sl
ALPACA_TC == 15         \* self.ALPACA_TC = 0.0015, in units of 1/10000
TCMultiple == 15        \* vol = max(vol, self.ALPACA_TC*15)
VolCap == 1000          \* vol = min(vol, 0.1), in units of 1/10000

NaN == 0

Assets == 1..NumAssets
Timestamps == 1..MaxTs
FactorValues == 0..MaxFactor
CloseValues == 0..MaxClose

\* ------------------------------------------------------------ series
Bar(t, x) == [ts |-> t, v |-> x]

SeqsUpTo(S, n) == UNION {[1..m -> S] : m \in 0..n}

\* The live windows the feed may return: any order, repeated timestamps allowed.
Windows(Vals, n) == SeqsUpTo({Bar(t, x) : t \in Timestamps, x \in Vals}, n)

TsOf(s) == {s[j].ts : j \in 1..Len(s)}

\* index.duplicated(keep='first'): position j repeats an earlier timestamp.
Duplicated(s, j) == \E h \in 1..(j - 1) : s[h].ts = s[j].ts

RECURSIVE DropDuplicated(_, _)
\* s[~s.index.duplicated(keep='first')], scanning from position j.
DropDuplicated(s, j) ==
    IF j > Len(s) THEN <<>>
    ELSE IF Duplicated(s, j) THEN DropDuplicated(s, j + 1)
    ELSE <<s[j]>> \o DropDuplicated(s, j + 1)

RECURSIVE InsertBar(_, _)
\* Insert bar b into the ascending series s, after the bars with ts <= b.ts.
InsertBar(s, b) ==
    IF s = <<>> THEN <<b>>
    ELSE IF Head(s).ts <= b.ts THEN <<Head(s)>> \o InsertBar(Tail(s), b)
    ELSE <<b>> \o s

RECURSIVE SortIndex(_)
\* DataFrame.sort_index(): ascending by timestamp.
SortIndex(s) ==
    IF s = <<>> THEN <<>>
    ELSE InsertBar(SortIndex(SubSeq(s, 1, Len(s) - 1)), s[Len(s)])

\* A merge that keeps repeated timestamps (the dedupe dropped).
MergeNoDedupe(S, W) == SortIndex(S \o W)

\* A merge that keeps the last bar of a repeated timestamp (keep='last').
MergeKeepLast(S, W) == SortIndex(DropDuplicated(W \o S, 1))

\* A merge that leaves the concatenation in arrival order (the sort dropped).
MergeNoSort(S, W) == DropDuplicated(S \o W, 1)

\* update_history's merge of a live window W into a stored series S:
\* pd.concat([S, W], axis=0), drop duplicated index keeping the first, sort_index.
Merge(S, W) == SortIndex(DropDuplicated(S \o W, 1))

RECURSIVE FFill(_, _)
\* fillna(method='ffill') from position j on: a missing observation takes the
\* value of the bar before it; a leading missing observation stays missing.
FFill(s, j) ==
    IF j > Len(s) THEN s
    ELSE IF j > 1 /\ s[j].v = NaN
         THEN FFill([s EXCEPT ![j] = Bar(s[j].ts, s[j - 1].v)], j + 1)
         ELSE FFill(s, j + 1)

StrictlyIncreasing(s) == \A j \in 1..(Len(s) - 1) : s[j].ts < s[j + 1].ts
UniqueIndex(s) == \A j, h \in 1..Len(s) : s[j].ts = s[h].ts => j = h

\* ------------------------------------------------------------ state
VARIABLES
    history,        \* self.history: asset -> factor series
    price_history,  \* self.price_history: asset -> price series
    uh_status,      \* update_history: "none", "running", "returned", "raised"
    uh_pc,          \* update_history: the fetch it is at, "factors" or "price"
    uh_i,           \* update_history: the asset of its for loop
    touched,        \* series changed since update_history was entered: <<asset, kind>>
    pc,             \* position of run(): "start", "idle", "chkmin", "account",
                    \* "update", "loop", "crashed" ("construct": run() not entered)
    now,            \* the wall clock, in seconds
    last_min,       \* run's last_min
    cash_asset,     \* run's cash_asset
    k,              \* the asset of run's for loop
    last,           \* what the latest iteration of run's for loop did
    cyc,            \* the cycle in progress, or the latest one
    fired,          \* when cycles were triggered
    api             \* the latest direct call of get_signal or close_all_positions

hvars == <<history, price_history, uh_status, uh_pc, uh_i, touched>>
rvars == <<now, last_min, cash_asset, k, last, cyc, fired, api>>
vars == <<history, price_history, uh_status, uh_pc, uh_i, touched, pc,
          now, last_min, cash_asset, k, last, cyc, fired, api>>

\* What one iteration of run's for loop did; NoDecision before the first.
\* qty is the quotient <<numerator, denominator>>, <<0, 0>> when it is missing.
NoDecision ==
    [sym |-> 0, held |-> FALSE, pos |-> FALSE, evaluated |-> FALSE, signal |-> 0,
     small |-> FALSE, sized |-> FALSE, raw |-> 0, vol |-> 0, close |-> 0,
     qty |-> <<0, 0>>,
     attempted |-> FALSE, result |-> "none", take_profit |-> 0, stop_loss |-> 0]

\* state: "none", "running", "aborted", "completed"; processed: the assets the for
\* loop reached; rejected: the assets whose order the broker failed; raised_at:
\* the asset update_history was at when it raised (0: it did not); recorded: the
\* minute the clock showed at the cycle's last line (-1: not reached); cash: the
\* account.cash the cycle fetched (-1: not yet); spent: the sum of qty * close
\* over the orders the cycle submitted; after_abort: the cycle before was aborted.
NoCycle == [state |-> "none", processed |-> {}, rejected |-> {}, raised_at |-> 0,
            recorded |-> -1, cash |-> -1, spent |-> 0, after_abort |-> FALSE]

\* A direct call of a public method: get_signal(sym, strat) with the standardized
\* value z and the returned out, or close_all_positions with the broker's
\* positions, the position i its for loop is at, the symbols it tried to close
\* and what close_position did for each.
NoCall == [call |-> "none", state |-> "none", sym |-> 0, strat |-> "", z |-> 0,
           out |-> 0, positions |-> <<>>, i |-> 0, attempts |-> <<>>,
           results |-> <<>>]

\* abs: the minute (counted from the start) of the latest trigger, -1 before the
\* first; same: the trigger before it fell in the same minute.
NoFire == [abs |-> -1, same |-> FALSE]

\* ------------------------------------------------------------ warmup
Uniques(Vals) == {s \in SeqsUpTo({Bar(t, x) : t \in Timestamps, x \in Vals}, MaxTs) :
                     s # <<>> /\ UniqueIndex(s)}

\* get_history: the feed's range with duplicated timestamps dropped (keep first),
\* in the order the feed delivered it.
get_history(Vals) == Uniques(Vals)

\* warmup_history: the factor frame of each asset, forward-filled.
warmup_history == {FFill(s, 1) : s \in get_history(FactorValues)}

\* warmup_price_history: the price frame of each asset, forward-filled.
warmup_price_history == {FFill(s, 1) : s \in get_history(CloseValues)}

\* ------------------------------------------------------------ update_history
\* The series of <<asset, kind>> pairs that differ between two stores.
Changed(h1, p1, h2, p2) ==
    {<<a, "factors">> : a \in {b \in Assets : h1[b] # h2[b]}}
    \cup {<<a, "price">> : a \in {b \in Assets : p1[b] # p2[b]}}

\* A failed factor fetch that leaves an empty frame in the store.
UHFactorsRaiseClears ==
    /\ uh_status = "running"
    /\ uh_pc = "factors"
    /\ history' = [history EXCEPT ![uh_i] = <<>>]
    /\ touched' = touched \cup Changed(history, price_history, history', price_history)
    /\ uh_status' = "raised"
    /\ UNCHANGED <<price_history, uh_pc, uh_i>>

\* get_multifactor_live_data returns window W: merged into self.history[asset].
UHFetchFactors(Wins) ==
    /\ uh_status = "running"
    /\ uh_pc = "factors"
    /\ \E W \in Wins :
          history' = [history EXCEPT ![uh_i] = Merge(@, W)]
    /\ touched' = touched \cup Changed(history, price_history, history', price_history)
    /\ uh_pc' = "price"
    /\ UNCHANGED <<price_history, uh_status, uh_i>>

\* get_multifactor_live_data raises: update_history is left by the exception.
UHFactorsRaise ==
    /\ uh_status = "running"
    /\ uh_pc = "factors"
    /\ uh_status' = "raised"
    /\ UNCHANGED <<history, price_history, uh_pc, uh_i, touched>>

\* get_live_data('price') returns window W: merged into self.price_history[asset];
\* the for loop moves to the next asset, or update_history returns.
UHFetchPrice(Wins) ==
    /\ uh_status = "running"
    /\ uh_pc = "price"
    /\ \E W \in Wins :
          price_history' = [price_history EXCEPT ![uh_i] = Merge(@, W)]
    /\ touched' = touched \cup Changed(history, price_history, history, price_history')
    /\ IF uh_i = NumAssets
       THEN uh_status' = "returned" /\ UNCHANGED <<uh_pc, uh_i>>
       ELSE uh_pc' = "factors" /\ uh_i' = uh_i + 1 /\ UNCHANGED uh_status
    /\ UNCHANGED history

\* get_live_data('price') raises.
UHPriceRaise ==
    /\ uh_status = "running"
    /\ uh_pc = "price"
    /\ uh_status' = "raised"
    /\ UNCHANGED <<history, price_history, uh_pc, uh_i, touched>>

\* One step of update_history with the feed answering from the given windows.
update_history(FWins, PWins) ==
    \/ UHFetchFactors(FWins)
    \/ UHFactorsRaise
    \/ UHFetchPrice(PWins)
    \/ UHPriceRaise

\* ------------------------------------------------------------ the history store alone
\* After warmup_history and warmup_price_history (lines 80-81): every series has
\* unique timestamps and is forward-filled; update_history has not run yet.
InitHist ==
    /\ \E wf \in warmup_history, wp \in warmup_price_history :
          /\ history = [a \in Assets |-> wf]
          /\ price_history = [a \in Assets |-> wp]
    /\ uh_status = "none"
    /\ uh_pc = "factors"
    /\ uh_i = 1
    /\ touched = {}
    /\ pc = "construct"
    /\ now = 0
    /\ last_min = 0
    /\ cash_asset = 0
    /\ k = 0
    /\ last = NoDecision
    /\ cyc = NoCycle
    /\ fired = NoFire
    /\ api = NoCall

\* A caller (line 84, line 113) enters update_history.
CallUpdate ==
    /\ pc = "construct"
    /\ uh_status \in {"none", "returned", "raised"}
    /\ uh_status' = "running"
    /\ uh_pc' = "factors"
    /\ uh_i' = 1
    /\ touched' = {}
    /\ UNCHANGED <<history, price_history, pc>>
    /\ UNCHANGED rvars

HistStep ==
    /\ pc = "construct"
    /\ update_history(Windows(FactorValues, MaxWinLen), Windows(CloseValues, MaxWinLen))
    /\ UNCHANGED pc
    /\ UNCHANGED rvars

NextHist == CallUpdate \/ HistStep

SpecHist == InitHist /\ [][NextHist]_vars

\* ------------------------------------------------------------ the wall clock
\* datetime.now().second, datetime.now().minute, and the minute counted from 0.
Second(t) == t % SecPerMin
Minute(t) == (t \div SecPerMin) % MinPerHour
AbsMinute(t) == t \div SecPerMin

\* Time passes.  The clock is read in three places only (the two reads of
\* MINUTE_CONDITION and the last line of the cycle); the time a blocking call
\* takes is accounted for before the next of these reads.
Tick ==
    /\ \/ pc \in {"start", "idle", "chkmin"}
       \/ pc = "loop" /\ k > NumAssets
    /\ now < MaxTime
    /\ now' = now + 1
    /\ UNCHANGED <<hvars, pc, last_min, cash_asset, k, last, cyc, fired, api>>

\* ------------------------------------------------------------ broker and signal
\* Rounding up instead of truncating.
RoundUp(n, d) == IF n >= 0 THEN (n + d - 1) \div d ELSE -((-n) \div d)

\* int(x) of the rational n/d: truncation toward zero.
Trunc(n, d) == IF n >= 0 THEN n \div d ELSE -((-n) \div d)

\* account.cash as the broker reports it.
CashValues == {0, MaxCash \div 2, MaxCash}

\* getDailyVol(...).iloc[-1]: the raw volatility, in units of 1/10000.
RawVols == {5, 500, 5000}

min_order_size(a) == MinOrderSize

\* The last close of the stored price series: price_history[symbol].iloc[-1].close.
LastClose(a) == price_history[a][Len(price_history[a])].v

\* cash_asset / close (line 120): the quotient, missing when the close is missing.
Qty(cash, close) == IF close = NaN THEN <<0, 0>> ELSE <<cash, close>>

\* qty * close of an order, 0 when the quantity is missing.
Notional(qty, close) == IF qty[2] = 0 THEN 0 ELSE (qty[1] * close) \div qty[2]

\* get_open_position: the broker's position when it answers and holds one;
\* False when the broker raises (no position, or a failed query).
get_open_position(held, q) == q = "answer" /\ held

\* standardize(raw_df, 10000)['vpin_500'].iloc[-1]: z when the latest
\* observation is present, missing when it is missing.
standardize(series, z) == IF series[Len(series)].v = NaN THEN NaN ELSE z

\* get_signal: (df['vpin_500'].iloc[-1] > 2) * 1 for 'macd', 0 for any other name.
get_signal(z, strat) == IF strat = "macd" THEN (IF z > 2 THEN 1 ELSE 0) ELSE 0

\* The comparison turned round: qty > min_order_size.
BelowMinimumTurned(a, cash, close) ==
    IF close = NaN THEN FALSE ELSE cash > min_order_size(a) * close

\* min_order_size > qty, with qty = cash_asset / close; a comparison with a
\* missing close is False.
BelowMinimum(a, cash, close) ==
    IF close = NaN THEN FALSE ELSE min_order_size(a) * close > cash

\* min and max exchanged: vol = max(vol, 0.1); vol = min(vol, self.ALPACA_TC*15).
ClampVolExchanged(raw) ==
    LET floored == IF VolCap > raw THEN VolCap ELSE raw
    IN IF ALPACA_TC * TCMultiple < floored THEN ALPACA_TC * TCMultiple ELSE floored

\* vol = min(vol, 0.1); vol = max(vol, self.ALPACA_TC*15).
ClampVol(raw) ==
    LET capped == IF VolCap < raw THEN VolCap ELSE raw
    IN IF ALPACA_TC * TCMultiple > capped THEN ALPACA_TC * TCMultiple ELSE capped

\* close + (self.tp * vol * close) and close - (self.sl * vol * close), in units
\* of 1/10000; missing when the close is missing.
\* The take-profit level with the leg on the wrong side of the close.
TakeProfitBelow(close, vol) ==
    IF close = NaN THEN NaN ELSE close * 10000 - tp * vol * close

TakeProfit(close, vol) == IF close = NaN THEN NaN ELSE close * 10000 + tp * vol * close
StopLoss(close, vol) == IF close = NaN THEN NaN ELSE close * 10000 - sl * vol * close

\* submit_order without its try/except: the broker's failure leaves it as raised.
submit_order_uncaught(o) == IF o = "accepted" THEN "order" ELSE "raised"

\* submit_order: the order when the broker accepts it, False when the broker raises.
submit_order(o) == IF o = "accepted" THEN "order" ELSE "False"

\* ------------------------------------------------------------ direct calls
\* The strategy names a caller passes to get_signal: the one it knows and another.
Strategies == {"macd", "rsi"}

\* What get_all_positions returns: the symbols of the open positions, in order.
PositionLists == SeqsUpTo(Assets, MaxPositions)

\* close_position without its try/except: the broker's failure leaves it as raised.
close_position_uncaught(o) == IF o = "closed" THEN "closed" ELSE "raised"

\* close_position: the broker's answer, False when the broker raises (lines 344-348).
close_position(o) == IF o = "closed" THEN "closed" ELSE "False"

\* After construction, with nothing called yet.
InitApi ==
    /\ \E wf \in warmup_history, wp \in warmup_price_history :
          /\ history = [a \in Assets |-> wf]
          /\ price_history = [a \in Assets |-> wp]
    /\ uh_status = "none"
    /\ uh_pc = "factors"
    /\ uh_i = 1
    /\ touched = {}
    /\ pc = "construct"
    /\ now = 0
    /\ last_min = 0
    /\ cash_asset = 0
    /\ k = 0
    /\ last = NoDecision
    /\ cyc = NoCycle
    /\ fired = NoFire
    /\ api = NoCall

\* A caller calls get_signal(symbol, strat) (lines 145-167).
CallGetSignal ==
    /\ api.state # "running"
    /\ \E a \in Assets, strat \in Strategies, z \in 0..MaxZ :
          api' = [NoCall EXCEPT !.call = "get_signal", !.state = "returned",
                                !.sym = a, !.strat = strat,
                                !.z = standardize(history[a], z),
                                !.out = get_signal(standardize(history[a], z), strat)]
    /\ UNCHANGED <<hvars, pc, now, last_min, cash_asset, k, last, cyc, fired>>

\* A caller calls close_all_positions: get_all_positions answers or raises (line 362).
CallCloseAll ==
    /\ api.state # "running"
    /\ \/ \E ps \in PositionLists :
             api' = [NoCall EXCEPT !.call = "close_all_positions",
                                   !.state = IF ps = <<>> THEN "returned" ELSE "running",
                                   !.positions = ps, !.i = 1]
       \/ api' = [NoCall EXCEPT !.call = "close_all_positions", !.state = "raised"]
    /\ UNCHANGED <<hvars, pc, now, last_min, cash_asset, k, last, cyc, fired>>

\* One iteration of close_all_positions' for loop (lines 363-367): close_position
\* for the position's symbol; an exception out of it is caught and printed.
ClosePositionStep ==
    /\ api.call = "close_all_positions"
    /\ api.state = "running"
    /\ \E o \in {"closed", "failure"} :
          api' = [api EXCEPT !.attempts = Append(@, api.positions[api.i]),
                             !.results = Append(@, close_position(o)),
                             !.i = @ + 1,
                             !.state = IF api.i = Len(api.positions)
                                       THEN "returned" ELSE "running"]
    /\ UNCHANGED <<hvars, pc, now, last_min, cash_asset, k, last, cyc, fired>>

NextApi == CallGetSignal \/ CallCloseAll \/ ClosePositionStep

SpecApi == InitApi /\ [][NextApi]_vars

\* ------------------------------------------------------------ run
\* After construction: warmup and the constructor's update_history have run, so
\* every series is sorted with unique timestamps; run() is about to be entered.
Init ==
    /\ history = [a \in Assets |-> <<Bar(1, 1)>>]
    /\ price_history = [a \in Assets |-> <<Bar(1, 1)>>]
    /\ uh_status = "none"
    /\ uh_pc = "factors"
    /\ uh_i = 1
    /\ touched = {}
    /\ pc = "start"
    /\ now = 0
    /\ last_min = 0
    /\ cash_asset = 0
    /\ k = 0
    /\ last = NoDecision
    /\ cyc = NoCycle
    /\ fired = NoFire
    /\ api = NoCall

\* last_min = datetime.now().minute (line 102).
Start ==
    /\ pc = "start"
    /\ last_min' = Minute(now)
    /\ pc' = "idle"
    /\ UNCHANGED <<hvars, now, cash_asset, k, last, cyc, fired, api>>

\* MINUTE_CONDITION, first read: datetime.now().second == interval.  When it is
\* not, the while loop comes round with nothing changed.
CheckSecond ==
    /\ pc = "idle"
    /\ Second(now) = 0
    /\ pc' = "chkmin"
    /\ UNCHANGED <<hvars, rvars>>

\* MINUTE_CONDITION, second read: datetime.now().minute != last_min.  True starts
\* a cycle; False sends the while loop round.
CheckMinute ==
    /\ pc = "chkmin"
    /\ IF Minute(now) # last_min
       THEN /\ pc' = "account"
            /\ cyc' = [NoCycle EXCEPT !.state = "running",
                                      !.after_abort = (cyc.state = "aborted")]
            /\ fired' = [abs |-> AbsMinute(now), same |-> fired.abs = AbsMinute(now)]
            /\ last' = NoDecision
       ELSE /\ pc' = "idle"
            /\ UNCHANGED <<cyc, fired, last>>
    /\ UNCHANGED <<hvars, now, last_min, cash_asset, k, api>>

\* get_account with the usable cash not divided among the assets.
GetAccountWholeCash ==
    /\ pc = "account"
    /\ \E cash \in CashValues :
          /\ cash_asset' = Trunc(9 * cash, 10)
          /\ cyc' = [cyc EXCEPT !.cash = cash]
    /\ pc' = "update"
    /\ uh_status' = "running"
    /\ uh_pc' = "factors"
    /\ uh_i' = 1
    /\ touched' = {}
    /\ UNCHANGED <<history, price_history, now, last_min, k, last, fired, api>>

\* account = get_account(); account_cash = float(account.cash) * 0.9;
\* cash_asset = int(account_cash / len(self.tradable_assets)); then
\* update_history(50) is entered.
GetAccount ==
    /\ pc = "account"
    /\ \E cash \in CashValues :
          /\ cash_asset' = Trunc(9 * cash, 10 * NumAssets)
          /\ cyc' = [cyc EXCEPT !.cash = cash]
    /\ pc' = "update"
    /\ uh_status' = "running"
    /\ uh_pc' = "factors"
    /\ uh_i' = 1
    /\ touched' = {}
    /\ UNCHANGED <<history, price_history, now, last_min, k, last, fired, api>>

\* get_account() raises: nothing in run() catches it.
GetAccountRaises ==
    /\ pc = "account"
    /\ pc' = "crashed"
    /\ UNCHANGED <<hvars, rvars>>

\* A step of update_history(50) inside the cycle.
RunUpdate ==
    /\ pc = "update"
    /\ update_history(Windows(FactorValues, MaxRunWinLen), Windows(CloseValues, MaxRunWinLen))
    /\ UNCHANGED <<pc, rvars>>

\* update_history(50) returned: the for loop over the assets starts.
UpdateReturned ==
    /\ pc = "update"
    /\ uh_status = "returned"
    /\ pc' = "loop"
    /\ k' = 1
    /\ uh_status' = "none"
    /\ uh_pc' = "factors"
    /\ uh_i' = 1
    /\ touched' = {}
    /\ UNCHANGED <<history, price_history, now, last_min, cash_asset, last, cyc, fired, api>>

\* The handler without its continue: the for loop runs after the failed update.
UpdateRaisedFallsThrough ==
    /\ pc = "update"
    /\ uh_status = "raised"
    /\ pc' = "loop"
    /\ k' = 1
    /\ cyc' = [cyc EXCEPT !.state = "aborted", !.raised_at = uh_i]
    /\ uh_status' = "none"
    /\ uh_pc' = "factors"
    /\ uh_i' = 1
    /\ touched' = {}
    /\ UNCHANGED <<history, price_history, now, last_min, cash_asset, last, fired, api>>

\* The handler leaving the while loop instead of continuing it.
UpdateRaisedLeaves ==
    /\ pc = "update"
    /\ uh_status = "raised"
    /\ pc' = "crashed"
    /\ cyc' = [cyc EXCEPT !.state = "aborted", !.raised_at = uh_i]
    /\ uh_status' = "none"
    /\ uh_pc' = "factors"
    /\ uh_i' = 1
    /\ touched' = {}
    /\ UNCHANGED <<history, price_history, now, last_min, cash_asset, k, last, fired, api>>

\* update_history(50) raised: except: print(...); continue (lines 114-116).
UpdateRaised ==
    /\ pc = "update"
    /\ uh_status = "raised"
    /\ pc' = "idle"
    /\ cyc' = [cyc EXCEPT !.state = "aborted", !.raised_at = uh_i]
    /\ uh_status' = "none"
    /\ uh_pc' = "factors"
    /\ uh_i' = 1
    /\ touched' = {}
    /\ UNCHANGED <<history, price_history, now, last_min, cash_asset, k, last, fired, api>>

\* The for loop's iteration ends having done d; the next asset is up.
Iterated(d) ==
    /\ last' = d
    /\ cyc' = [cyc EXCEPT !.processed = @ \cup {k},
                          !.rejected = IF d.result = "False" THEN @ \cup {k} ELSE @,
                          !.spent = IF d.attempted THEN @ + Notional(d.qty, d.close)
                                    ELSE @]
    /\ pc' = IF d.result = "raised" THEN "crashed" ELSE "loop"
    /\ k' = k + 1

\* One iteration of the for loop (lines 118-141): the position query, the
\* signal, the minimum order size, the volatility, the bracket and the order.
LoopBody ==
    /\ pc = "loop"
    /\ k <= NumAssets
    /\ \E held \in BOOLEAN, q \in {"answer", "failure"} :
          LET close == LastClose(k)
              pos == get_open_position(held, q)
              reached == [NoDecision EXCEPT !.sym = k, !.held = held, !.pos = pos,
                                            !.close = close,
                                            !.qty = Qty(cash_asset, close)]
          IN IF pos THEN Iterated(reached)
             ELSE \E z \in 0..MaxZ :
                LET signal == get_signal(standardize(history[k], z), "macd")
                    judged == [reached EXCEPT !.evaluated = TRUE, !.signal = signal]
                IN IF BelowMinimum(k, cash_asset, close)
                   THEN Iterated([judged EXCEPT !.small = TRUE])
                   ELSE \E raw \in RawVols :
                      LET vol == ClampVol(raw)
                          sized == [judged EXCEPT !.sized = TRUE, !.raw = raw, !.vol = vol]
                      IN IF signal # 1 THEN Iterated(sized)
                         ELSE \E o \in {"accepted", "failure"} :
                            Iterated([sized EXCEPT
                                         !.attempted = TRUE,
                                         !.result = submit_order(o),
                                         !.take_profit = TakeProfit(close, vol),
                                         !.stop_loss = StopLoss(close, vol)])
    /\ UNCHANGED <<hvars, now, last_min, cash_asset, fired, api>>

\* The end of the cycle storing the minute the cycle was triggered in.
EndCycleRecordsTrigger ==
    /\ pc = "loop"
    /\ k > NumAssets
    /\ last_min' = fired.abs % MinPerHour
    /\ pc' = "idle"
    /\ cyc' = [cyc EXCEPT !.state = "completed", !.recorded = Minute(now)]
    /\ last' = NoDecision
    /\ UNCHANGED <<hvars, now, cash_asset, k, fired, api>>

\* The for loop is over: last_min = datetime.now().minute (line 143).
EndCycle ==
    /\ pc = "loop"
    /\ k > NumAssets
    /\ last_min' = Minute(now)
    /\ pc' = "idle"
    /\ cyc' = [cyc EXCEPT !.state = "completed", !.recorded = Minute(now)]
    /\ last' = NoDecision
    /\ UNCHANGED <<hvars, now, cash_asset, k, fired, api>>

Next ==
    \/ Tick
    \/ Start
    \/ CheckSecond
    \/ CheckMinute
    \/ GetAccount
    \/ GetAccountRaises
    \/ RunUpdate
    \/ UpdateReturned
    \/ UpdateRaised
    \/ LoopBody
    \/ EndCycle

Spec == Init /\ [][Next]_vars

\* ------------------------------------------------------------ run, for ever
\* The clock of a process that runs for hours: after the last second of the hour
\* datetime.now() shows second 0 of minute 0 again.
Hour == SecPerMin * MinPerHour

TickRound ==
    /\ \/ pc \in {"start", "idle", "chkmin"}
       \/ pc = "loop" /\ k > NumAssets
    /\ now' = (now + 1) % Hour
    /\ UNCHANGED <<hvars, pc, last_min, cash_asset, k, last, cyc, fired, api>>

\* A step of update_history(50) inside the cycle, with a feed that has no new bar:
\* each fetch returns an empty window or raises.
RunUpdateQuiet ==
    /\ pc = "update"
    /\ update_history(Windows(FactorValues, 0), Windows(CloseValues, 0))
    /\ UNCHANGED <<pc, rvars>>

\* The steps of run() that are a call returning (with a value or an error) or a
\* statement executing.
RunStep ==
    \/ Start
    \/ GetAccount
    \/ GetAccountRaises
    \/ RunUpdateQuiet
    \/ UpdateReturned
    \/ UpdateRaised
    \/ LoopBody
    \/ EndCycle

NextLive == TickRound \/ CheckSecond \/ CheckMinute \/ RunStep

\* The clock keeps advancing and run() keeps executing.  The while loop re-reads
\* the clock many times a second, so whenever the clock shows second 0 of a minute
\* other than last_min both reads of MINUTE_CONDITION happen within that second.
Fairness ==
    /\ WF_vars(TickRound)
    /\ WF_vars(RunStep)
    /\ SF_vars(CheckSecond /\ Minute(now) # last_min)
    /\ SF_vars(CheckMinute /\ pc' = "account")

SpecLive == Init /\ [][NextLive]_vars /\ Fairness

\* ------------------------------------------------------------ claims
\* C1: a cycle is never triggered twice in the same wall-clock minute, whether the
\* cycle before it completed or was aborted by a failed history update.
C1_OneFirePerMinute == ~fired.same

\* C2: in a cycle whose update_history(50) raised, the for loop reached no asset:
\* no position query, no signal evaluation, no order submission.
C2_AbortedCycleDoesNothing ==
    (cyc.state = "aborted" \/ (pc = "update" /\ uh_status = "raised"))
        => (cyc.processed = {} /\ cyc.rejected = {} /\ last = NoDecision)

\* The update raised at the last asset, and the loop is back at its clock check.
C2_Witness == cyc.state = "aborted" /\ cyc.raised_at = NumAssets /\ pc = "idle"

\* C3 as claimed: when a feed call inside update_history fails, no series of any
\* asset differs from what it was when update_history was entered.
C3_FailedUpdateChangesNothing == uh_status = "raised" => touched = {}

\* C3 as amended: when a feed call inside update_history fails, the series whose
\* fetch failed and every series after it in update order (the price series of the
\* same asset, both series of every later asset) are as they were when
\* update_history was entered.
C3_FailedFetchAndLaterUnchanged ==
    uh_status = "raised" =>
        \A a \in Assets :
            /\ a > uh_i => (<<a, "factors">> \notin touched /\ <<a, "price">> \notin touched)
            /\ a = uh_i => <<a, "price">> \notin touched
            /\ (a = uh_i /\ uh_pc = "factors") => <<a, "factors">> \notin touched

\* The fetch for the second asset failed after the first asset's series were merged.
C3_Witness ==
    /\ uh_status = "raised"
    /\ uh_i = 2
    /\ <<1, "factors">> \in touched
    /\ <<1, "price">> \in touched

\* C4: no failure of a broker or feed call made inside the run loop leaves run().
C4_NothingFatal == pc # "crashed"

\* C5: an asset with an open position at the broker when the for loop reaches it
\* gets no signal evaluation and no order in that cycle, whatever the position
\* query answered.
C5_OpenPositionExcluded == last.held => (~last.evaluated /\ ~last.attempted)

\* C6: a failed order submission comes back as False, run() goes on, and the cycle
\* ends only after every asset was reached and the minute was recorded.
C6_OrderFailureIsolated ==
    /\ last.attempted => last.result \in {"order", "False"}
    /\ cyc.rejected # {} =>
          /\ pc \in {"loop", "idle", "chkmin"}
          /\ cyc.state \in {"running", "completed"}
          /\ pc = "loop" => cyc.processed = 1..(k - 1)
          /\ pc # "loop" =>
                (cyc.state = "completed" /\ cyc.processed = Assets
                 /\ last_min = cyc.recorded)

\* The first asset's order failed; the cycle reached the others and ended.
C6_Witness ==
    /\ 1 \in cyc.rejected
    /\ cyc.state = "completed"
    /\ cyc.processed = Assets
    /\ pc = "idle"

\* C7: merging a live window twice gives the series that merging it once gives,
\* for the stored series update_history is about to merge into and every window
\* the feed may return.
C7_MergeIdempotent ==
    uh_status = "running" =>
        IF uh_pc = "factors"
        THEN \A W \in Windows(FactorValues, MaxWinLen) :
                Merge(Merge(history[uh_i], W), W) = Merge(history[uh_i], W)
        ELSE \A W \in Windows(CloseValues, MaxWinLen) :
                Merge(Merge(price_history[uh_i], W), W) = Merge(price_history[uh_i], W)

\* update_history is about to merge into a price series that an earlier merge
\* changed and that a window overlapping it with another close would not change.
C7_Witness ==
    /\ uh_status = "running"
    /\ uh_pc = "price"
    /\ uh_i = 1
    /\ Len(price_history[1]) = MaxTs
    /\ \E W \in Windows(CloseValues, 1) :
          /\ W # <<>>
          /\ W[1].v # price_history[1][1].v
          /\ W[1].ts = price_history[1][1].ts
          /\ Merge(price_history[1], W) = price_history[1]

\* C8: after a successful update_history every factor and price series has
\* strictly increasing timestamps.
C8_SortedUnique ==
    uh_status = "returned" =>
        \A a \in Assets :
            StrictlyIncreasing(history[a]) /\ StrictlyIncreasing(price_history[a])

\* An update returned having changed a factor series and a price series that now
\* hold every timestamp.
C8_Witness ==
    /\ uh_status = "returned"
    /\ <<1, "factors">> \in touched
    /\ <<2, "price">> \in touched
    /\ Len(history[1]) = MaxTs
    /\ Len(price_history[2]) = MaxTs

\* C9: an asset whose quantity cash_asset / close is below its min_order_size gets
\* no order, nothing is raised, and the for loop goes on to the next asset.
C9_BelowMinimumNoOrder ==
    (last.sym # 0 /\ last.close # NaN
        /\ min_order_size(last.sym) * last.close > cash_asset)
        => (~last.attempted /\ last.result = "none" /\ pc = "loop" /\ k = last.sym + 1)

\* A buy signal for the first asset with a quantity below the minimum.
C9_Witness ==
    /\ last.sym = 1
    /\ last.small
    /\ last.signal = 1
    /\ cash_asset > 0
    /\ min_order_size(1) * last.close > cash_asset

\* C10: the volatility used is the raw value clamped to [0.0225, 0.1] (225 and 1000
\* in units of 1/10000): the raw value inside the range, 0.0225 below, 0.1 above.
C10_VolClamped ==
    last.sized =>
        /\ last.vol >= 225 /\ last.vol <= 1000
        /\ last.vol = (IF last.raw < 225 THEN 225
                       ELSE IF last.raw > 1000 THEN 1000 ELSE last.raw)
        /\ 225 = TCMultiple * ALPACA_TC

\* A raw volatility of 0.0005 was read and clamped up.
C10_Witness == last.sized /\ last.raw = 5 /\ last.vol = 225

\* C11 as claimed: the per-asset budget is exactly (0.9 * account cash) / N and the
\* quantity is that budget divided by the asset's last close.
C11_BudgetIsExactShare ==
    (pc \in {"update", "loop"} /\ cyc.cash >= 0) =>
        /\ 10 * NumAssets * cash_asset = 9 * cyc.cash
        /\ (last.sym # 0 /\ last.close # NaN) =>
              last.qty[1] * last.close = cash_asset * last.qty[2]

\* C11 as amended: the per-asset budget is (0.9 * account cash) / N truncated to a
\* whole number, and the quantity is that truncated budget divided by the asset's
\* last stored close.
C11_BudgetIsTruncatedShare ==
    (pc \in {"update", "loop"} /\ cyc.cash >= 0) =>
        /\ 10 * NumAssets * cash_asset <= 9 * cyc.cash
        /\ 9 * cyc.cash < 10 * NumAssets * (cash_asset + 1)
        /\ (last.sym # 0 /\ last.close # NaN) =>
              /\ last.close = LastClose(last.sym)
              /\ last.qty[2] # 0
              /\ last.qty[1] * last.close = cash_asset * last.qty[2]

\* A budget that lost its fraction, with a quantity computed from it at close 2.
C11_Witness ==
    /\ pc = "loop"
    /\ 10 * NumAssets * cash_asset < 9 * cyc.cash
    /\ cash_asset > 0
    /\ last.sym = 1
    /\ last.close = 2
    /\ last.qty = <<cash_asset, 2>>

\* C12: every submitted order carries take_profit = close + tp * vol * close and
\* stop_loss = close - sl * vol * close, where close is the asset's last stored close
\* (the one the quantity was computed from) and vol the clamped volatility; so with
\* a positive close stop_loss < close < take_profit and each leg lies between
\* 2 * 15 * ALPACA_TC * close and 2 * 0.1 * close away from the close.
C12_BracketLevels ==
    (last.attempted /\ last.close # NaN) =>
        /\ last.close = LastClose(last.sym)
        /\ last.qty[2] = last.close
        /\ last.vol = ClampVol(last.raw)
        /\ last.take_profit = last.close * 10000 + 2 * last.vol * last.close
        /\ last.stop_loss = last.close * 10000 - 2 * last.vol * last.close
        /\ last.stop_loss < last.close * 10000
        /\ last.close * 10000 < last.take_profit
        /\ last.take_profit - last.close * 10000
              >= 2 * TCMultiple * ALPACA_TC * last.close
        /\ last.take_profit - last.close * 10000 <= 2 * VolCap * last.close
        /\ last.close * 10000 - last.stop_loss
              >= 2 * TCMultiple * ALPACA_TC * last.close
        /\ last.close * 10000 - last.stop_loss <= 2 * VolCap * last.close

\* An order at close 2 whose volatility lay strictly between the two clamps.
C12_Witness ==
    /\ last.attempted
    /\ last.close = 2
    /\ last.raw = 500
    /\ last.take_profit = 22000
    /\ last.stop_loss = 18000

\* C13: get_signal called with a strategy name other than 'macd' returns an
\* unknown-strategy outcome that differs from the signals 0 and 1.
C13_UnknownStrategyReported ==
    (api.call = "get_signal" /\ api.strat # "macd") => api.out \notin {0, 1}

\* C14: close_all_positions calls close_position for every position the broker
\* returned, once each and in the broker's order; a failed close does not stop the
\* loop, and close_position gives False for a failure instead of raising.
C14_BestEffortCloseAll ==
    (api.call = "close_all_positions" /\ api.state \in {"running", "returned"}) =>
        /\ api.i >= 1
        /\ api.attempts = SubSeq(api.positions, 1, api.i - 1)
        /\ Len(api.results) = Len(api.attempts)
        /\ \A j \in 1..Len(api.results) : api.results[j] \in {"closed", "False"}
        /\ api.state = "returned" => api.attempts = api.positions

\* Three positions, the first close failed and the later ones were still tried.
C14_Witness ==
    /\ api.call = "close_all_positions"
    /\ api.state = "returned"
    /\ Len(api.positions) = MaxPositions
    /\ api.attempts = api.positions
    /\ api.results[1] = "False"
    /\ api.results[MaxPositions] = "closed"

\* C15: in a cycle whose history update succeeded, an order is attempted for a
\* symbol exactly when the symbol has no open position, its signal is 1 (latest
\* standardized vpin_500 above 2) and its quantity is at least min_order_size; in
\* particular a symbol with signal 0 gets no order.
C15_SubmissionGate ==
    (pc = "loop" /\ last.sym # 0) =>
        (last.attempted <=>
            /\ ~last.held
            /\ last.signal = 1
            /\ last.qty[2] # 0
            /\ last.qty[1] >= min_order_size(last.sym) * last.qty[2])

\* Every bar of series s is a bar of series t, with its timestamp and its value.
BarsKept(s, t) == \A j \in 1..Len(s) : \E h \in 1..Len(t) : t[h] = s[j]

\* C16: no step of update_history removes a stored timestamp or changes the value
\* stored at it, whatever the live window carries for that timestamp: every bar a
\* factor or price series held before the step is still in it after the step.
C16_FirstSeenWins ==
    [][\A a \in Assets : /\ BarsKept(history[a], history'[a])
                         /\ BarsKept(price_history[a], price_history'[a])]_vars

\* An update returned after merging into both series of the second asset, whose
\* factor series holds a bar that a window with another value at the bar's
\* timestamp leaves as it is.
C16_Witness ==
    /\ uh_status = "returned"
    /\ <<2, "price">> \in touched
    /\ \E j \in 1..Len(history[2]) :
          \E W \in Windows(FactorValues, 1) :
             /\ W # <<>>
             /\ W[1].ts = history[2][j].ts
             /\ W[1].v # history[2][j].v
             /\ BarsKept(history[2], Merge(history[2], W))

\* Series s has no missing observation after its first bar.
NoGapAfterFirst(s) == \A j \in 2..Len(s) : s[j].v # NaN

\* C17: every factor and price series that the signal and sizing logic reads in a
\* cycle has no missing value after its first bar, whether a bar came from warmup
\* or from a live window merged by update_history.
C17_GapFilled ==
    pc = "loop" =>
        \A a \in Assets :
            NoGapAfterFirst(history[a]) /\ NoGapAfterFirst(price_history[a])

\* C18 as claimed: when a cycle has ended, last_min is the minute in which the
\* cycle was triggered, however long the cycle took.
C18_RecordedIsFiredMinute ==
    cyc.state = "completed" => last_min = fired.abs % MinPerHour

\* C18 as amended: when a cycle has run to its end, last_min is the minute the wall
\* clock showed at the end of the cycle (line 143).
C18_RecordedIsEndMinute ==
    cyc.state = "completed" => last_min = cyc.recorded

\* A cycle that ran over into the next minute and recorded that minute.
C18_Witness ==
    /\ cyc.state = "completed"
    /\ pc = "idle"
    /\ cyc.recorded = Minute(now)
    /\ AbsMinute(now) = fired.abs + 1
    /\ last_min # fired.abs % MinPerHour

\* C19: after a cycle aborted by a failed history update the loop is back at its
\* clock check, and a new cycle is triggered later on: the abort does not disable
\* future cycles.
C19_RecoversAfterAbort ==
    /\ [](cyc.state = "aborted" => pc \in {"idle", "chkmin"})
    /\ (cyc.state = "aborted") ~> (pc = "account" /\ cyc.after_abort)

\* A cycle has just been triggered, the one before it having been aborted.
C19_Witness ==
    /\ pc = "account"
    /\ cyc.state = "running"
    /\ cyc.after_abort

\* C20: in a cycle, the sum of quantity times last close over the orders the cycle
\* has submitted is at most 0.9 times the account cash fetched at its start.
C20_SpendingBound ==
    cyc.cash >= 0 => 10 * cyc.spent <= 9 * cyc.cash

\* A cycle that submitted an order for every asset, each worth the whole budget.
C20_Witness ==
    /\ cyc.state = "completed"
    /\ cash_asset > 0
    /\ cyc.spent = NumAssets * cash_asset
    /\ 10 * cyc.spent < 9 * cyc.cash

====
